---- MODULE Spec2Model ----
(***************************************************************************)
(* Model of the template catalog maintenance scripts:                      *)
(*   .github/scripts/update-catalog.py   (version bump + info.yaml build)  *)
(*   .github/scripts/validate-catalog.py (YAML validation of a change set) *)
(*                                                                         *)
(* Strings are sequences of one-character strings, so that strip(), the    *)
(* SEMVER_PATTERN match, int() and the f-string formatting are computed.   *)
(***************************************************************************)
EXTENDS Integers, Sequences, FiniteSets, TLC

VARIABLES
    bp_in,      \* argument handed to bump_patch_version
    bp_out,     \* its result (NoResult before the call)
    bp_done,    \* whether the call has been made
    tree,       \* REPO_ROOT: entry name -> [is_dir, manifest (text of manifest.yaml)]
    order,      \* the order in which REPO_ROOT.iterdir() lists the entries
    info,       \* text of REPO_ROOT/info.yaml (Absent when there is none)
    git,        \* what the git commands answer for HEAD~1..HEAD
    runs,       \* number of completed runs of update-catalog.py
    exit,       \* exit code of the last run (-1 before any run)
    exc,        \* the exception that ended the last run ("" when none)
    changed,    \* `changed` of the last run of main
    written,    \* manifest writes of the last run, per directory
    info_wrote, \* whether the last run wrote info.yaml
    pre_tree,   \* tree when the last run started
    pre_info,   \* info when the last run started
    disk,       \* validate-catalog.py: other files on disk, path -> status
    v_done,     \* validate-catalog.py has run
    v_exit,     \* its exit code (-1 before the run)
    v_exc,      \* the exception that ended it ("" when none)
    v_parsed,   \* the paths yaml.safe_load was called on, in order
    v_errors,   \* the paths of the "ERROR: ..." lines printed, in order
    v_changed,  \* changed_templates as main computed it
    v_printed,  \* whether the "Validated: ..." line was printed
    v_listed    \* the directory names on that line, in order

bpvars == <<bp_in, bp_out, bp_done>>
upvars == <<tree, order, info, git, runs, exit, exc, changed, written,
            info_wrote, pre_tree, pre_info>>
vvars == <<disk, v_done, v_exit, v_exc, v_parsed, v_errors, v_changed,
           v_printed, v_listed>>
vars == <<bpvars, upvars, vvars>>

----------------------------------------------------------------------------
(* Bounds *)

MaxLen == 6          \* longest string handed to bump_patch_version
MaxRuns == 2         \* runs of update-catalog.py on one checkout
MaxChanged == 2      \* paths listed by git diff --name-only (update routine)
MaxFiles == 4        \* paths in the change set handed to the validator

----------------------------------------------------------------------------
(* Characters and strings *)

DigitChars == <<"0", "1", "2", "3", "4", "5", "6", "7", "8", "9">>

IsDigit(c) == \E i \in 1..10 : DigitChars[i] = c

DigitVal(c) == (CHOOSE i \in 1..10 : DigitChars[i] = c) - 1

IsSpace(c) == c = " "

\* The characters version strings are drawn from: two digits (a leading zero
\* and a carry are both expressible), the separator, whitespace, a letter.
Alphabet == {"0", "9", ".", " ", "a"}

RECURSIVE StringsOfLen(_)
StringsOfLen(n) ==
    IF n = 0 THEN {<<>>}
    ELSE {Append(s, c) : s \in StringsOfLen(n - 1), c \in Alphabet}

Strings(n) == UNION {StringsOfLen(k) : k \in 0..n}

RECURSIVE lstrip(_)
lstrip(s) ==
    IF s # <<>> /\ IsSpace(Head(s)) THEN lstrip(Tail(s)) ELSE s

RECURSIVE rstrip(_)
rstrip(s) ==
    IF s # <<>> /\ IsSpace(s[Len(s)]) THEN rstrip(SubSeq(s, 1, Len(s) - 1)) ELSE s

\* str.strip()
strip(s) == rstrip(lstrip(s))

\* str.split(sep) for a one-character separator
RECURSIVE split(_, _)
split(s, sep) ==
    IF \A i \in 1..Len(s) : s[i] # sep THEN <<s>>
    ELSE LET i == CHOOSE j \in 1..Len(s) :
                      s[j] = sep /\ \A k \in 1..(j - 1) : s[k] # sep
         IN  <<SubSeq(s, 1, i - 1)>> \o split(SubSeq(s, i + 1, Len(s)), sep)

\* \d+
AllDigits(s) == s # <<>> /\ \A i \in 1..Len(s) : IsDigit(s[i])

\* int(str) of a run of decimal digits
RECURSIVE int(_)
int(s) ==
    IF s = <<>> THEN 0 ELSE 10 * int(SubSeq(s, 1, Len(s) - 1)) + DigitVal(s[Len(s)])

\* str(int) of a non-negative integer
RECURSIVE fmt_int(_)
fmt_int(n) ==
    IF n < 10 THEN <<DigitChars[n + 1]>>
    ELSE Append(fmt_int(n \div 10), DigitChars[(n % 10) + 1])

----------------------------------------------------------------------------
(* update-catalog.py: SEMVER_PATTERN and bump_patch_version *)

\* SEMVER_PATTERN.match(s): the groups on a match, <<>> otherwise
SEMVER_PATTERN(s) ==
    LET parts == split(s, ".")
    IN  IF Len(parts) = 3 /\ \A i \in 1..3 : AllDigits(parts[i])
        THEN parts ELSE <<>>

\* bump_patch_version matching the raw argument
bump_patch_version_nostrip(version) ==
    LET m == SEMVER_PATTERN(version)
    IN  IF m = <<>> THEN version
        ELSE fmt_int(int(m[1])) \o <<".">> \o fmt_int(int(m[2])) \o <<".">>
                 \o fmt_int(int(m[3]) + 1)

\* bump_patch_version(version)
bump_patch_version(version) ==
    LET m == SEMVER_PATTERN(strip(version))
    IN  IF m = <<>> THEN version
        ELSE fmt_int(int(m[1])) \o <<".">> \o fmt_int(int(m[2])) \o <<".">>
                 \o fmt_int(int(m[3]) + 1)

----------------------------------------------------------------------------
(* Python values as produced by yaml.safe_load.  Every value is a record   *)
(* with the same fields; items of a "seq" carry the key "-".               *)

VStr(s)      == [t |-> "str",   s |-> s,    items |-> <<>>]
VInt(s)      == [t |-> "int",   s |-> s,    items |-> <<>>]   \* s: decimal digits
VFloat(s)    == [t |-> "float", s |-> s,    items |-> <<>>]   \* s: repr(float)
None         == [t |-> "null",  s |-> <<>>, items |-> <<>>]
VSeq(items)  == [t |-> "seq",   s |-> <<>>, items |-> items]
VMap(items)  == [t |-> "map",   s |-> <<>>, items |-> items]
Item(k, v)   == [k |-> k, v |-> v]

\* the exception marker returned by a step that raised
Raised(e)    == [t |-> "raise", s |-> <<e>>, items |-> <<>>]

HasKey(m, k) == \E i \in 1..Len(m.items) : m.items[i].k = k

\* dict.get(k, default)
Get(m, k, default) ==
    IF HasKey(m, k)
    THEN m.items[CHOOSE i \in 1..Len(m.items) : m.items[i].k = k].v
    ELSE default

\* dict[k] = v done as a pop followed by an insert: the key always goes last
SetItem_move_to_end(m, k, v) ==
    VMap(Append(SelectSeq(m.items, LAMBDA it : it.k # k), Item(k, v)))

\* dict[k] = v : an existing key keeps its position, a new key goes last
SetItem(m, k, v) ==
    IF HasKey(m, k)
    THEN VMap([i \in 1..Len(m.items) |->
                 IF m.items[i].k = k THEN Item(k, v) ELSE m.items[i]])
    ELSE VMap(Append(m.items, Item(k, v)))

\* str(x) for the scalars a version field can hold
PyStr(x) ==
    IF x.t = "null" THEN <<"N", "o", "n", "e">> ELSE x.s

\* bool(x)
Truthy(x) ==
    CASE x.t = "null"  -> FALSE
      [] x.t = "str"   -> x.s # <<>>
      [] x.t = "int"   -> x.s # <<"0">>
      [] x.t = "float" -> x.s # <<"0", ".", "0">>
      [] OTHER         -> x.items # <<>>

----------------------------------------------------------------------------
(* YAML text.  A document is kept as its node tree: scalars with their     *)
(* lexeme and quoting, sequences, mappings; together with the formatting   *)
(* style of the file ("block" hand-written, "flow" JSON-like, "dump" as    *)
(* yaml.dump lays it out) and whether it is well-formed at all.            *)

Plain(lex)   == [kind |-> "scalar", q |-> FALSE, lex |-> lex,  items |-> <<>>]
Quoted(lex)  == [kind |-> "scalar", q |-> TRUE,  lex |-> lex,  items |-> <<>>]
NSeq(items)  == [kind |-> "seq",    q |-> FALSE, lex |-> <<>>, items |-> items]
NMap(items)  == [kind |-> "map",    q |-> FALSE, lex |-> <<>>, items |-> items]

Text(root, style) == [status |-> "yaml", root |-> root, style |-> style]
Malformed    == [status |-> "malformed",   root |-> Plain(<<>>), style |-> "block"]
Undecodable  == [status |-> "undecodable", root |-> Plain(<<>>), style |-> "block"]
Absent       == [status |-> "absent",      root |-> Plain(<<>>), style |-> "block"]
EmptyText    == Text(Plain(<<>>), "block")                  \* the string ""

\* index of the only "." of s, 0 when there is none or more than one
DotAt(s) ==
    IF Cardinality({i \in 1..Len(s) : s[i] = "."}) = 1
    THEN CHOOSE i \in 1..Len(s) : s[i] = "." ELSE 0

RECURSIVE StripLeadingZeros(_)
StripLeadingZeros(s) ==
    IF Len(s) > 1 /\ Head(s) = "0" THEN StripLeadingZeros(Tail(s)) ELSE s

RECURSIVE StripTrailingZeros(_)
StripTrailingZeros(s) ==
    IF Len(s) > 1 /\ s[Len(s)] = "0"
    THEN StripTrailingZeros(SubSeq(s, 1, Len(s) - 1)) ELSE s

IsOctalDigit(c) == IsDigit(c) /\ DigitVal(c) < 8

RECURSIVE int8(_)
int8(s) ==
    IF s = <<>> THEN 0 ELSE 8 * int8(SubSeq(s, 1, Len(s) - 1)) + DigitVal(s[Len(s)])

\* implicit resolver, null:  ~ | null | Null | NULL | (empty)
IsNullLex(s) == s = <<>> \/ s = <<"~">> \/ s = <<"n", "u", "l", "l">>

\* implicit resolver, int (decimal):  0 | [1-9][0-9]*
IsDecLex(s) == AllDigits(s) /\ (Len(s) = 1 \/ Head(s) # "0")

\* implicit resolver, int (octal):  0[0-7]+
IsOctLex(s) ==
    Len(s) > 1 /\ Head(s) = "0" /\ \A i \in 2..Len(s) : IsOctalDigit(s[i])

\* implicit resolver, float:  [0-9]+\.[0-9]*  |  \.[0-9]+
IsFloatLex(s) ==
    LET d == DotAt(s)
    IN  /\ d # 0
        /\ \A i \in 1..Len(s) : i # d => IsDigit(s[i])
        /\ Len(s) > 1

\* repr(float(s)) for a lexeme the float resolver accepts
FloatRepr(s) ==
    LET d  == DotAt(s)
        ip == SubSeq(s, 1, d - 1)
        fp == SubSeq(s, d + 1, Len(s))
    IN  StripLeadingZeros(IF ip = <<>> THEN <<"0">> ELSE ip) \o <<".">>
            \o StripTrailingZeros(IF fp = <<>> THEN <<"0">> ELSE fp)

\* the value a plain scalar resolves to
resolve(lex) ==
    CASE IsNullLex(lex)  -> None
      [] IsDecLex(lex)   -> VInt(lex)
      [] IsOctLex(lex)   -> VInt(fmt_int(int8(lex)))
      [] IsFloatLex(lex) -> VFloat(FloatRepr(lex))
      [] OTHER           -> VStr(lex)

\* SafeConstructor: node tree -> Python value
RECURSIVE construct(_)
construct(node) ==
    CASE node.kind = "scalar" ->
             IF node.q THEN VStr(node.lex) ELSE resolve(node.lex)
      [] node.kind = "seq" ->
             VSeq([i \in 1..Len(node.items) |->
                     Item(node.items[i].k, construct(node.items[i].v))])
      [] OTHER ->
             VMap([i \in 1..Len(node.items) |->
                     Item(node.items[i].k, construct(node.items[i].v))])

\* Representer + emitter scalar analysis: a str is emitted plain only when
\* it is non-empty, has no leading or trailing space and would resolve back
\* to a str; otherwise it is quoted.
represent_str(s) ==
    IF s # <<>> /\ ~IsSpace(Head(s)) /\ ~IsSpace(s[Len(s)]) /\ resolve(s).t = "str"
    THEN Plain(s) ELSE Quoted(s)

RECURSIVE represent(_)
represent(v) ==
    CASE v.t = "str"   -> represent_str(v.s)
      [] v.t = "int"   -> Plain(v.s)
      [] v.t = "float" -> Plain(v.s)
      [] v.t = "null"  -> Plain(<<"n", "u", "l", "l">>)
      [] v.t = "seq"   ->
             NSeq([i \in 1..Len(v.items) |->
                     Item(v.items[i].k, represent(v.items[i].v))])
      [] OTHER ->
             NMap([i \in 1..Len(v.items) |->
                     Item(v.items[i].k, represent(v.items[i].v))])

\* yaml.safe_load(open(path)): the value, or the exception raised
safe_load(text) ==
    CASE text.status = "malformed"   -> Raised("YAMLError")
      [] text.status = "undecodable" -> Raised("UnicodeDecodeError")
      [] OTHER                       -> construct(text.root)

\* yaml.dump(data, default_flow_style=False, sort_keys=False, allow_unicode=True)
yaml_dump(data) == Text(represent(data), "dump")

----------------------------------------------------------------------------
(* The repository.  Names and paths are sequences of tokens: "/" separates *)
(* path components, a leading "." is its own token, and a file extension   *)
(* is one token.                                                           *)

DirA     == <<"a">>
DirB     == <<"b">>
DotDir   == <<".", "x">>
License  == <<"LICENSE">>
Entries  == {DirA, DirB, DotDir, License}

\* sorted() on the entry names (code point order: "." < "L" < "a" < "b")
SortedNames == <<DotDir, License, DirA, DirB>>

ManifestFile == <<"manifest", ".yaml">>
ManifestPath(d) == d \o <<"/">> \o ManifestFile

IsTemplateDir(tr, name) ==
    /\ tr[name].is_dir
    /\ Head(name) # "."
    /\ tr[name].manifest.status # "absent"

\* get_template_dirs(): in iterdir() order
get_template_dirs(tr, ord) == SelectSeq(ord, LAMBDA n : IsTemplateDir(tr, n))

Range(f) == {f[i] : i \in DOMAIN f}

\* "version:" in stdout
ContainsMarker(stdout) ==
    \E i \in 1..(Len(stdout) - 1) : stdout[i] = "version" /\ stdout[i + 1] = ":"

\* subprocess.run(["git", "diff", "--name-only", ...], check=True) raises
git_diff_raises(g) == g.has_parent /\ g.names_rc # 0

\* get_changed_template_dirs(), when the git diff does not raise
get_changed_template_dirs(tr, ord, g) ==
    IF ~g.has_parent THEN Range(get_template_dirs(tr, ord))
    ELSE LET template_dirs == Range(get_template_dirs(tr, ord))
         IN  {split(f, "/")[1] : f \in
                {x \in Range(g.names) :
                    (\E i \in 1..Len(x) : x[i] = "/")
                    /\ split(x, "/")[1] \in template_dirs}}

\* get_manifest_version(path): str(version), or None when it is falsy
get_manifest_version(text) ==
    LET data == safe_load(text)
    IN  IF data.t = "raise" THEN data
        ELSE IF data.t # "map" THEN Raised("AttributeError")
        ELSE LET manifest == Get(data, "manifest", data)
             IN  IF manifest.t # "map" THEN Raised("AttributeError")
                 ELSE LET version == Get(manifest, "version", None)
                      IN  IF Truthy(version) THEN VStr(PyStr(version)) ELSE None

\* version_was_bumped(template_dir) with the first-commit answer inverted
version_was_bumped_first_commit_true(g, d) ==
    IF ~g.has_parent THEN TRUE
    ELSE LET result == g.mdiff[d]
         IN  IF result.rc # 0 \/ result.stdout = <<>> THEN FALSE
             ELSE ContainsMarker(result.stdout)

\* version_was_bumped(template_dir)
version_was_bumped(g, d) ==
    IF ~g.has_parent THEN FALSE
    ELSE LET result == g.mdiff[d]
         IN  IF result.rc # 0 \/ result.stdout = <<>> THEN FALSE
             ELSE ContainsMarker(result.stdout)


\* the value of the only element of a singleton set: {e(x) : x \in {v}}
\* computes v once and names it x in e
The(S) == CHOOSE v \in S : TRUE

\* bump_manifest_version(template_dir) dumping `manifest` instead of `data`
bump_manifest_version_flat(text) ==
    The({
        IF data.t = "raise" THEN [exc |-> data.s[1], text |-> text]
        ELSE IF data.t # "map" THEN [exc |-> "AttributeError", text |-> text]
        ELSE The({
            IF manifest.t # "map" THEN [exc |-> "AttributeError", text |-> text]
            ELSE The({
                [exc |-> "",
                 text |-> yaml_dump(SetItem(manifest, "version", VStr(new_version)))]
                : new_version \in {bump_patch_version(PyStr(
                      Get(manifest, "version", VStr(<<"0", ".", "0", ".", "0">>))))}})
            : manifest \in {Get(data, "manifest", data)}})
        : data \in {safe_load(text)}})

\* bump_manifest_version(template_dir): the text written to manifest.yaml,
\* or the exception raised before the file is opened for writing.
\* old_version = manifest.get("version", "0.0.0"); manifest["version"] is set
\* inside `data` when manifest is data["manifest"], and `data` is dumped.
bump_manifest_version(text) ==
    The({
        IF data.t = "raise" THEN [exc |-> data.s[1], text |-> text]
        ELSE IF data.t # "map" THEN [exc |-> "AttributeError", text |-> text]
        ELSE The({
            IF manifest.t # "map" THEN [exc |-> "AttributeError", text |-> text]
            ELSE The({
                [exc |-> "",
                 text |-> yaml_dump(
                     IF HasKey(data, "manifest")
                     THEN SetItem(data, "manifest",
                                  SetItem(manifest, "version", VStr(new_version)))
                     ELSE SetItem(manifest, "version", VStr(new_version)))]
                : new_version \in {bump_patch_version(PyStr(
                      Get(manifest, "version", VStr(<<"0", ".", "0", ".", "0">>))))}})
            : manifest \in {Get(data, "manifest", data)}})
        : data \in {safe_load(text)}})

\* the loop of main over sorted(changed); st = [tree, written, exc]
RECURSIVE bump_loop(_, _, _)
bump_loop(dirs, g, st) ==
    IF dirs = <<>> \/ st.exc # "" THEN st
    ELSE IF version_was_bumped(g, Head(dirs)) THEN bump_loop(Tail(dirs), g, st)
    ELSE The({
        IF w.exc = ""
        THEN bump_loop(Tail(dirs), g,
                 [st EXCEPT !.tree[Head(dirs)].manifest = w.text,
                            !.written[Head(dirs)] = @ + 1])
        ELSE [st EXCEPT !.exc = w.exc]
        : w \in {bump_manifest_version(st.tree[Head(dirs)].manifest)}})

\* the six summary fields projected from the manifest mapping
summary(manifest, id) ==
    VMap(<<Item("id",          id),
           Item("name",        Get(manifest, "name", None)),
           Item("description", Get(manifest, "description", None)),
           Item("version",     Get(manifest, "version", None)),
           Item("tags",        Get(manifest, "tags", VSeq(<<>>))),
           Item("keywords",    Get(manifest, "keywords", VSeq(<<>>)))>>)

\* one record of build_info_yaml with the manifest's own id ignored
info_record_dirname_id(name, text) ==
    The({
        IF data.t = "raise" THEN data
        ELSE IF data.t # "map" THEN Raised("AttributeError")
        ELSE The({
            IF manifest.t # "map" THEN Raised("AttributeError")
            ELSE summary(manifest, VStr(name))
            : manifest \in {Get(data, "manifest", data)}})
        : data \in {safe_load(text)}})

\* one record of build_info_yaml, or the exception raised
info_record(name, text) ==
    The({
        IF data.t = "raise" THEN data
        ELSE IF data.t # "map" THEN Raised("AttributeError")
        ELSE The({
            IF manifest.t # "map" THEN Raised("AttributeError")
            ELSE summary(manifest, Get(manifest, "id", VStr(name)))
            : manifest \in {Get(data, "manifest", data)}})
        : data \in {safe_load(text)}})

\* the records of all template directories, in listing order
info_records(tr, dirs) ==
    [i \in 1..Len(dirs) |-> Item("-", info_record(dirs[i], tr[dirs[i]].manifest))]

\* build_info_yaml() with a try/except that skips manifests failing to load
build_info_yaml_skip_bad(tr, ord) ==
    VMap(<<Item("templates",
                VSeq(SelectSeq(info_records(tr, get_template_dirs(tr, ord)),
                               LAMBDA r : r.v.t # "raise")))>>)

\* build_info_yaml(): {"templates": [...]}, or the first exception raised
build_info_yaml(tr, ord) ==
    The({
        IF \E i \in 1..Len(recs) : recs[i].v.t = "raise"
        THEN recs[CHOOSE i \in 1..Len(recs) :
                    recs[i].v.t = "raise"
                    /\ \A j \in 1..(i - 1) : recs[j].v.t # "raise"].v
        ELSE VMap(<<Item("templates", VSeq(recs))>>)
        : recs \in {info_records(tr, get_template_dirs(tr, ord))}})

\* lines 143-151 of main without the comparison: info.yaml always written
catalog_builder_always_writes(tr, ord, inf) ==
    The({
        IF info_content.t = "raise"
        THEN [exc |-> info_content.s[1], info |-> inf, wrote |-> FALSE]
        ELSE [exc |-> "", info |-> yaml_dump(info_content), wrote |-> TRUE]
        : info_content \in {build_info_yaml(tr, ord)}})

\* lines 143-151 of main: the rebuilt info.yaml and whether it was written
catalog_builder(tr, ord, inf) ==
    The({
        IF info_content.t = "raise"
        THEN [exc |-> info_content.s[1], info |-> inf, wrote |-> FALSE]
        ELSE The({
            IF (IF inf.status # "absent" THEN inf ELSE EmptyText) # new_content
            THEN [exc |-> "", info |-> new_content, wrote |-> TRUE]
            ELSE [exc |-> "", info |-> inf, wrote |-> FALSE]
            : new_content \in {yaml_dump(info_content)}})
        : info_content \in {build_info_yaml(tr, ord)}})

NoWrites == [d \in Entries |-> 0]

\* main() of update-catalog.py
main(tr, ord, inf, g) ==
    IF git_diff_raises(g)
    THEN [exit |-> 1, exc |-> "CalledProcessError", tree |-> tr, info |-> inf,
          changed |-> {}, written |-> NoWrites, info_wrote |-> FALSE]
    ELSE The({
        The({
            IF st.exc # ""
            THEN [exit |-> 1, exc |-> st.exc, tree |-> st.tree, info |-> inf,
                  changed |-> ch, written |-> st.written, info_wrote |-> FALSE]
            ELSE The({
                [exit |-> IF cb.exc = "" THEN 0 ELSE 1, exc |-> cb.exc,
                 tree |-> st.tree, info |-> cb.info, changed |-> ch,
                 written |-> st.written, info_wrote |-> cb.wrote]
                : cb \in {catalog_builder(st.tree, ord, inf)}})
            : st \in {bump_loop(SelectSeq(SortedNames, LAMBDA n : n \in ch), g,
                                [tree |-> tr, written |-> NoWrites, exc |-> ""])}})
        : ch \in {get_changed_template_dirs(tr, ord, g)}})

----------------------------------------------------------------------------
(* Manifests, index files and git answers the update routine is run on *)

V_1_0_9  == <<"1", ".", "0", ".", "9">>
V_2_0_0  == <<"2", ".", "0", ".", "0">>
V_1_1_0  == <<"1", ".", "1", ".", "0">>
V_padded == <<" ", "1", ".", "0", ".", "0">>

\* name: alf / version: 1.0.9 / tags: [x]
ManFlat ==
    Text(NMap(<<Item("name", Plain(<<"a", "l", "f">>)),
                Item("version", Plain(V_1_0_9)),
                Item("tags", NSeq(<<Item("-", Plain(<<"x">>))>>))>>), "block")

\* id: z / name: "10" / keywords: [k]          (no version)
ManNoVersion ==
    Text(NMap(<<Item("id", Plain(<<"z">>)),
                Item("name", Quoted(<<"1", "0">>)),
                Item("keywords", NSeq(<<Item("-", Plain(<<"k">>))>>))>>), "block")

\* schema: 1 / manifest: { version: 0.90, name: b }     (version is a float)
ManNestedFloat ==
    Text(NMap(<<Item("schema", Plain(<<"1">>)),
                Item("manifest",
                     NMap(<<Item("version", Plain(<<"0", ".", "9", "0">>)),
                            Item("name", Plain(<<"b">>))>>))>>), "block")

\* manifest: { id: n, version: 2.0.0, tags: [] }
ManNested ==
    Text(NMap(<<Item("manifest",
                     NMap(<<Item("id", Plain(<<"n">>)),
                            Item("version", Plain(V_2_0_0)),
                            Item("tags", NSeq(<<>>))>>))>>), "block")

\* version: " 1.0.0" / description: d
ManPadded ==
    Text(NMap(<<Item("version", Quoted(V_padded)),
                Item("description", Plain(<<"d">>))>>), "block")

\* version:            (null) / name: n
ManNullVersion ==
    Text(NMap(<<Item("version", Plain(<<>>)),
                Item("name", Plain(<<"n">>))>>), "block")

\* version: "" / name: e
ManEmptyVersion ==
    Text(NMap(<<Item("version", Quoted(<<>>)),
                Item("name", Plain(<<"e">>))>>), "block")

\* {"name": "j", "version": "1.1.0"}
ManFlow ==
    Text(NMap(<<Item("name", Quoted(<<"j">>)),
                Item("version", Quoted(V_1_1_0))>>), "flow")

\* manifest: text       (the nested value is not a mapping)
ManScalarNested ==
    Text(NMap(<<Item("manifest", Plain(<<"t">>))>>), "block")

ManifestsA == {ManFlat, ManNoVersion, ManNestedFloat, ManNested, ManPadded,
               ManNullVersion, ManEmptyVersion, ManFlow, ManScalarNested,
               EmptyText, Malformed, Absent}

ManifestsB == {ManFlat, ManNested, Malformed, Absent}

Trees ==
    {[n \in Entries |->
        CASE n = DirA    -> [is_dir |-> TRUE,  manifest |-> ma]
          [] n = DirB    -> [is_dir |-> TRUE,  manifest |-> mb]
          [] n = DotDir  -> [is_dir |-> TRUE,  manifest |-> ManFlat]
          [] OTHER       -> [is_dir |-> FALSE, manifest |-> Absent]]
     : ma \in ManifestsA, mb \in ManifestsB}

Orders == {<<License, DirA, DotDir, DirB>>, <<DirB, DotDir, DirA, License>>}

\* info.yaml before the run: none; the index a previous run wrote for this
\* tree, or that index re-formatted by hand; an index of no templates when
\* the tree has a manifest that does not load
Infos(tr, ord) ==
    UNION {IF c.t = "raise"
           THEN {Absent, yaml_dump(VMap(<<Item("templates", VSeq(<<>>))>>))}
           ELSE {Absent, yaml_dump(c), Text(represent(c), "block")}
           : c \in {build_info_yaml(tr, ord)}}

\* stdout of git diff HEAD~1 HEAD -- <dir>/manifest.yaml, with what the
\* commit really did to the version field
Diff(rc, stdout, version_changed) ==
    [rc |-> rc, stdout |-> stdout, version_changed |-> version_changed]

NoDiff == Diff(0, <<>>, FALSE)

\* -version: 1.0.8 / +version: 1.0.9
DiffVersionBlock ==
    Diff(0, <<"-", "version", ":", " ", "1.0.8", "\n",
              "+", "version", ":", " ", "1.0.9", "\n">>, TRUE)

\* -{"name": "j", "version": "1.0.0"} / +{"name": "j", "version": "1.1.0"}
DiffVersionFlow ==
    Diff(0, <<"-", "{", "\"", "name", "\"", ":", " ", "\"", "j", "\"", ",", " ",
                   "\"", "version", "\"", ":", " ", "\"", "1.0.0", "\"", "}", "\n",
              "+", "{", "\"", "name", "\"", ":", " ", "\"", "j", "\"", ",", " ",
                   "\"", "version", "\"", ":", " ", "\"", "1.1.0", "\"", "}", "\n">>,
         TRUE)

\* a changed name next to the unchanged version line (diff context)
DiffOtherNearVersion ==
    Diff(0, <<"-", "name", ":", " ", "old", "\n",
              "+", "name", ":", " ", "alf", "\n",
              " ", "version", ":", " ", "1.0.9", "\n">>, FALSE)

\* a changed field with no version line in the context
DiffOtherFar ==
    Diff(0, <<"-", "description", ":", " ", "old", "\n",
              "+", "description", ":", " ", "d", "\n">>, FALSE)

\* the git diff of the manifest failed
DiffFailed == Diff(128, <<>>, FALSE)

\* the diffs a manifest of a given formatting can show
ManifestDiffs(text) ==
    IF text.status = "yaml" /\ text.style = "flow"
    THEN {DiffVersionFlow, DiffFailed}
    ELSE {DiffVersionBlock, DiffOtherNearVersion, DiffOtherFar, DiffFailed}

PathPool == <<ManifestPath(DirA), DirA \o <<"/", "readme", ".md">>,
              ManifestPath(DirB), DirB \o <<"/", "readme", ".md">>,
              <<"info", ".yaml">>, ManifestPath(DotDir)>>

\* the lists of at most n paths of the pool, in pool order
NameLists(n) ==
    {SelectSeq(PathPool, LAMBDA p : p \in S) :
        S \in {T \in SUBSET Range(PathPool) : Cardinality(T) <= n}}

\* the manifest diff of d is empty unless the commit lists d/manifest.yaml
DiffsFor(tr, ns, d) ==
    IF ManifestPath(d) \in Range(ns) THEN ManifestDiffs(tr[d].manifest)
    ELSE {NoDiff}

\* rev-parse HEAD~1 succeeds; exit code and lines of diff --name-only; lines
\* of ls-tree -r --name-only HEAD; the manifest diffs of the two directories
GitAnswers(has_parent, names_rc, names, ls_tree, da, db) ==
    [has_parent |-> has_parent, names_rc |-> names_rc, names |-> names,
     ls_tree |-> ls_tree,
     mdiff |-> [d \in {DirA, DirB} |-> IF d = DirA THEN da ELSE db]]

Gits(tr) ==
    {GitAnswers(FALSE, 0, <<>>, <<>>, NoDiff, NoDiff),
     GitAnswers(TRUE, 128, <<>>, <<>>, NoDiff, NoDiff)}
    \cup
    UNION {{GitAnswers(TRUE, 0, ns, <<>>, da, db) :
                da \in DiffsFor(tr, ns, DirA), db \in DiffsFor(tr, ns, DirB)}
           : ns \in NameLists(MaxChanged)}

----------------------------------------------------------------------------
(* validate-catalog.py *)

InfoPath == <<"info", ".yaml">>

\* the files a change set can name, besides the manifests and info.yaml
CfgPath   == DirA \o <<"/", "cfg", ".yml">>
ExtraPath == DirB \o <<"/", "sub", "/", "extra", ".yaml">>
OldPath   == <<"c", "/", "old", ".yaml">>
ReadmePath == DirA \o <<"/", "readme", ".md">>
OtherPaths == {CfgPath, ExtraPath, OldPath, ReadmePath}

\* what open() and yaml.safe_load find at a path: "absent", "yaml",
\* "malformed" (yaml.YAMLError) or "undecodable" (UnicodeDecodeError)
FileStatus(tr, inf, dk, f) ==
    IF f = InfoPath THEN inf.status
    ELSE IF \E d \in Entries : f = ManifestPath(d)
    THEN tr[CHOOSE d \in Entries : f = ManifestPath(d)].manifest.status
    ELSE dk[f]

\* get_changed_files(): the lines git prints (check=True raises otherwise)
get_changed_files(g) == IF ~g.has_parent THEN g.ls_tree ELSE g.names

\* f.endswith((".yaml", ".yml"))
IsYamlFile(f) == f # <<>> /\ f[Len(f)] \in {".yaml", ".yml"}

\* get_changed_template_dirs(changed_files, template_dirs) of the validator,
\* with the length test off by one
validate_changed_template_dirs_deep(changed_files, template_dirs) ==
    {split(f, "/")[1] : f \in
        {x \in Range(changed_files) :
            Len(split(x, "/")) > 2 /\ split(x, "/")[1] \in Range(template_dirs)}}

\* get_changed_template_dirs(changed_files, template_dirs) of the validator
validate_changed_template_dirs(changed_files, template_dirs) ==
    {split(f, "/")[1] : f \in
        {x \in Range(changed_files) :
            Len(split(x, "/")) >= 2 /\ split(x, "/")[1] \in Range(template_dirs)}}

\* the loop of validate_yaml_files; acc = [parsed, errors, exc]
RECURSIVE validate_loop(_, _, _, _, _)
validate_loop(yaml_files, tr, inf, dk, acc) ==
    IF yaml_files = <<>> \/ acc.exc # "" THEN acc
    ELSE LET rel_path == Head(yaml_files)
             st       == FileStatus(tr, inf, dk, rel_path)
             rest     == Tail(yaml_files)
         IN  CASE st = "absent" ->
                      validate_loop(rest, tr, inf, dk, acc)
               [] st = "malformed" ->
                      validate_loop(rest, tr, inf, dk,
                          [acc EXCEPT !.parsed = Append(@, rel_path),
                                      !.errors = Append(@, rel_path)])
               [] st = "undecodable" ->
                      [acc EXCEPT !.parsed = Append(@, rel_path),
                                  !.exc = "UnicodeDecodeError"]
               [] OTHER ->
                      validate_loop(rest, tr, inf, dk,
                          [acc EXCEPT !.parsed = Append(@, rel_path)])

\* validate_yaml_files(repo_root, changed_files): the files parsed, the
\* errors collected, the exception that escaped, and the errors printed
validate_yaml_files(changed_files, tr, inf, dk) ==
    LET yaml_files == SelectSeq(changed_files, IsYamlFile)
        acc == validate_loop(yaml_files, tr, inf, dk,
                             [parsed |-> <<>>, errors |-> <<>>, exc |-> ""])
    IN  [parsed  |-> acc.parsed,
         exc     |-> acc.exc,
         printed |-> IF acc.exc = "" THEN acc.errors ELSE <<>>,
         ok      |-> acc.exc = "" /\ acc.errors = <<>>]

\* main() of validate-catalog.py
validate_main(tr, ord, inf, dk, g) ==
    LET template_dirs     == get_template_dirs(tr, ord)
        changed_files     == get_changed_files(g)
        changed_templates == validate_changed_template_dirs(changed_files,
                                                            template_dirs)
        v == validate_yaml_files(changed_files, tr, inf, dk)
    IN  IF v.exc # ""
        THEN [exit |-> 1, exc |-> v.exc, parsed |-> v.parsed, errors |-> <<>>,
              changed |-> changed_templates, printed |-> FALSE, listed |-> <<>>]
        ELSE IF ~v.ok
        THEN [exit |-> 1, exc |-> "", parsed |-> v.parsed, errors |-> v.printed,
              changed |-> changed_templates, printed |-> FALSE, listed |-> <<>>]
        ELSE [exit |-> 0, exc |-> "", parsed |-> v.parsed, errors |-> <<>>,
              changed |-> changed_templates, printed |-> TRUE,
              listed |-> SelectSeq(SortedNames,
                                   LAMBDA n : n \in changed_templates)]

ValidateIdle ==
    /\ disk = [f \in OtherPaths |-> "yaml"]
    /\ v_done = TRUE
    /\ v_exit = -1
    /\ v_exc = ""
    /\ v_parsed = <<>>
    /\ v_errors = <<>>
    /\ v_changed = {}
    /\ v_printed = FALSE
    /\ v_listed = <<>>

----------------------------------------------------------------------------
(* Specification of update-catalog.py *)

BumpIdle ==
    /\ bp_in = <<>>
    /\ bp_out = <<>>
    /\ bp_done = TRUE

UpdateInit ==
    /\ BumpIdle
    /\ tree \in Trees
    /\ order \in Orders
    /\ info \in Infos(tree, order)
    /\ git \in Gits(tree)
    /\ ValidateIdle
    /\ runs = 0
    /\ exit = -1
    /\ exc = ""
    /\ changed = {}
    /\ written = NoWrites
    /\ info_wrote = FALSE
    /\ pre_tree = tree
    /\ pre_info = info

\* one run of update-catalog.py, from os.chdir to sys.exit
RunUpdate ==
    /\ runs < MaxRuns
    /\ \E r \in {main(tree, order, info, git)} :
           /\ tree' = r.tree
           /\ info' = r.info
           /\ exit' = r.exit
           /\ exc' = r.exc
           /\ changed' = r.changed
           /\ written' = r.written
           /\ info_wrote' = r.info_wrote
    /\ runs' = runs + 1
    /\ pre_tree' = tree
    /\ pre_info' = info
    /\ UNCHANGED <<order, git, bpvars, vvars>>

UpdateNext == RunUpdate

SpecUpdate == UpdateInit /\ [][UpdateNext]_vars

----------------------------------------------------------------------------
(* Specification of the Version Bump Engine alone *)

NoResult == <<"<none>">>

UpdateIdle ==
    /\ tree = CHOOSE t \in Trees : t[DirA].manifest = ManFlat /\ t[DirB].manifest = Absent
    /\ order = <<License, DirA, DotDir, DirB>>
    /\ info = Absent
    /\ git = GitAnswers(FALSE, 0, <<>>, <<>>, NoDiff, NoDiff)
    /\ runs = MaxRuns
    /\ exit = -1
    /\ exc = ""
    /\ changed = {}
    /\ written = NoWrites
    /\ info_wrote = FALSE
    /\ pre_tree = tree
    /\ pre_info = info

BumpInit ==
    /\ bp_in \in Strings(MaxLen)
    /\ bp_out = NoResult
    /\ bp_done = FALSE
    /\ UpdateIdle
    /\ ValidateIdle

CallBump ==
    /\ ~bp_done
    /\ bp_out' = bump_patch_version(bp_in)
    /\ bp_done' = TRUE
    /\ UNCHANGED <<bp_in, upvars, vvars>>

BumpNext == CallBump

SpecBump == BumpInit /\ [][BumpNext]_vars

----------------------------------------------------------------------------
(* Specification of validate-catalog.py *)

ValidatePool == <<ManifestPath(DirA), CfgPath, ReadmePath, ExtraPath,
                  OldPath, InfoPath>>

\* the lists of at most n distinct paths of the pool, in any order
RECURSIVE FileLists(_)
FileLists(n) ==
    IF n = 0 THEN {<<>>}
    ELSE LET shorter == FileLists(n - 1)
         IN  shorter \cup
             {Append(l, f) : l \in {x \in shorter : Len(x) = n - 1},
                             f \in Range(ValidatePool)}

DistinctLists(n) ==
    {l \in FileLists(n) : \A i, j \in 1..Len(l) : i # j => l[i] # l[j]}

ValidateInit ==
    /\ BumpIdle
    /\ tree \in {t \in Trees :
                   /\ t[DirA].manifest \in {ManFlat, Malformed, Absent}
                   /\ t[DirB].manifest = ManFlat}
    /\ order = <<License, DirA, DotDir, DirB>>
    /\ info = yaml_dump(VMap(<<Item("templates", VSeq(<<>>))>>))
    /\ \E l \in DistinctLists(MaxFiles), p \in BOOLEAN :
          git = GitAnswers(p, 0, IF p THEN l ELSE <<>>, IF p THEN <<>> ELSE l,
                           NoDiff, NoDiff)
    /\ runs = MaxRuns
    /\ exit = -1
    /\ exc = ""
    /\ changed = {}
    /\ written = NoWrites
    /\ info_wrote = FALSE
    /\ pre_tree = tree
    /\ pre_info = info
    /\ disk \in {[f \in OtherPaths |->
                    CASE f = CfgPath   -> c
                      [] f = ExtraPath -> e
                      [] f = OldPath   -> "malformed"
                      [] OTHER         -> "malformed"]
                 : c \in {"yaml", "malformed", "undecodable"},
                   e \in {"yaml", "malformed", "absent"}}
    /\ v_done = FALSE
    /\ v_exit = -1
    /\ v_exc = ""
    /\ v_parsed = <<>>
    /\ v_errors = <<>>
    /\ v_changed = {}
    /\ v_printed = FALSE
    /\ v_listed = <<>>

\* one run of validate-catalog.py
RunValidate ==
    /\ ~v_done
    /\ \E r \in {validate_main(tree, order, info, disk, git)} :
           /\ v_exit' = r.exit
           /\ v_exc' = r.exc
           /\ v_parsed' = r.parsed
           /\ v_errors' = r.errors
           /\ v_changed' = r.changed
           /\ v_printed' = r.printed
           /\ v_listed' = r.listed
    /\ v_done' = TRUE
    /\ UNCHANGED <<disk, bpvars, upvars>>

ValidateNext == RunValidate

SpecValidate == ValidateInit /\ [][ValidateNext]_vars

----------------------------------------------------------------------------
(* Properties of update-catalog.py *)

\* Manifest Accessor on a file: the mapping the fields are looked up in
Accessor(text) ==
    LET data == safe_load(text)
    IN  Get(data, "manifest", data)

TemplateDirSet(tr) == {n \in Entries : IsTemplateDir(tr, n)}

DefaultVersion == VStr(<<"0", ".", "0", ".", "0">>)

\* items of a mapping other than the version entry, in order
OtherItems(m) == SelectSeq(m.items, LAMBDA it : it.k # "version")

\* the version string is three runs of digits once stripped
WellFormed(v) == v.t = "str" /\ SEMVER_PATTERN(strip(v.s)) # <<>>

Patch(v) == int(split(strip(v.s), ".")[3])

Ran == runs > 0

\* C2: after a run that returns 0, info.yaml holds one record per Template
\* Directory, in listing order, and the six fields of each record are the
\* values of the manifest now on disk (id defaulting to the directory name,
\* tags and keywords to the empty sequence).
C2_IndexReflectsManifests ==
    (Ran /\ exit = 0) =>
        LET dirs == get_template_dirs(tree, order)
            idx  == safe_load(info)
        IN  /\ idx.t = "map"
            /\ Len(idx.items) = 1
            /\ idx.items[1].k = "templates"
            /\ idx.items[1].v.t = "seq"
            /\ Len(idx.items[1].v.items) = Len(dirs)
            /\ \A i \in 1..Len(dirs) :
                  LET m == Accessor(tree[dirs[i]].manifest)
                      r == idx.items[1].v.items[i].v
                  IN  /\ r.t = "map"
                      /\ [j \in 1..Len(r.items) |-> r.items[j].k] =
                            <<"id", "name", "description", "version", "tags", "keywords">>
                      /\ r.items[1].v = (IF HasKey(m, "id") THEN Get(m, "id", None)
                                         ELSE VStr(dirs[i]))
                      /\ r.items[2].v = Get(m, "name", None)
                      /\ r.items[3].v = Get(m, "description", None)
                      /\ r.items[4].v = Get(m, "version", None)
                      /\ r.items[5].v = Get(m, "tags", VSeq(<<>>))
                      /\ r.items[6].v = Get(m, "keywords", VSeq(<<>>))

\* a successful run that bumped both templates and rewrote the index
C2_Witness ==
    /\ Ran /\ exit = 0 /\ info_wrote
    /\ written[DirA] = 1 /\ written[DirB] = 1
    /\ Len(safe_load(info).items[1].v.items) = 2

\* C3: the Catalog Builder run again on an unchanged repository produces the
\* same index text and does not write info.yaml: this holds of a rebuild
\* right after a successful run, of two rebuilds in a row from any state,
\* and of a whole second run that bumped nothing.
C3_BuilderIdempotent ==
    /\ (Ran /\ exit = 0) =>
          LET again == catalog_builder(tree, order, info)
          IN  again.exc = "" /\ ~again.wrote /\ again.info = info
    /\ LET first == catalog_builder(tree, order, info)
           second == catalog_builder(tree, order, first.info)
       IN  first.exc = "" => (second.exc = "" /\ ~second.wrote
                                /\ second.info = first.info)
    /\ (runs >= 2 /\ exit = 0 /\ tree = pre_tree) =>
          (~info_wrote /\ info = pre_info)

\* a second run that bumped nothing, after a first run that wrote the index
C3_Witness ==
    /\ runs = 2 /\ exit = 0 /\ tree = pre_tree
    /\ ~info_wrote /\ info = pre_info /\ info.style = "dump"
    /\ TemplateDirSet(tree) # {}

\* C4: a manifest rewritten by bump_manifest_version, read back, has every
\* field other than version unchanged and in the same order (at the top
\* level and under `manifest`), and its version is the str
\* bump_patch_version(str(prior version)), "0.0.0" standing for a missing key.
C4_RoundTrip ==
    \A d \in Entries :
        (Ran /\ written[d] > 0) =>
            LET old_data == safe_load(pre_tree[d].manifest)
                new_data == safe_load(tree[d].manifest)
                old      == Accessor(pre_tree[d].manifest)
                new      == Accessor(tree[d].manifest)
            IN  /\ new_data.t = "map" /\ new.t = "map"
                /\ OtherItems(new) = OtherItems(old)
                /\ HasKey(old, "version") =>
                      [j \in 1..Len(new.items) |-> new.items[j].k] =
                      [j \in 1..Len(old.items) |-> old.items[j].k]
                /\ Len(new_data.items) = Len(old_data.items)
                      + (IF HasKey(old_data, "manifest") \/ HasKey(old_data, "version")
                         THEN 0 ELSE 1)
                /\ \A j \in 1..Len(old_data.items) :
                      /\ new_data.items[j].k = old_data.items[j].k
                      /\ old_data.items[j].k \notin {"manifest", "version"} =>
                            new_data.items[j].v = old_data.items[j].v
                /\ Get(new, "version", None) =
                      VStr(bump_patch_version(PyStr(Get(old, "version", DefaultVersion))))
                /\ Truthy(Get(new, "version", None)) =>
                      get_manifest_version(tree[d].manifest) = Get(new, "version", None)

\* a nested manifest whose float version 0.9 came back as the str "0.9"
C4_Witness ==
    /\ Ran /\ written[DirA] = 1
    /\ pre_tree[DirA].manifest = ManNestedFloat
    /\ Get(Accessor(tree[DirA].manifest), "version", None) = VStr(<<"0", ".", "9">>)

\* C5: with no parent commit, a run reports every Template Directory as
\* changed; no manifest is written twice; and when the run returns 0 every
\* template's manifest was written exactly once, with
\* bump_patch_version applied once to its version (patch + 1 when the
\* version is well formed).
C5_FirstCommit ==
    (Ran /\ ~git.has_parent) =>
        /\ changed = TemplateDirSet(pre_tree)
        /\ \A d \in Entries : written[d] <= 1
        /\ exit = 0 =>
              \A d \in Entries :
                  IF d \in TemplateDirSet(pre_tree)
                  THEN LET old == Get(Accessor(pre_tree[d].manifest), "version",
                                      DefaultVersion)
                           new == Get(Accessor(tree[d].manifest), "version", None)
                       IN  /\ written[d] = 1
                           /\ new = VStr(bump_patch_version(PyStr(old)))
                           /\ WellFormed(old) =>
                                 (WellFormed(new) /\ Patch(new) = Patch(old) + 1)
                  ELSE written[d] = 0 /\ tree[d] = pre_tree[d]

\* first commit, two templates, both bumped once: 1.0.9 -> 1.0.10
C5_Witness ==
    /\ Ran /\ ~git.has_parent /\ exit = 0
    /\ changed = {DirA, DirB}
    /\ written[DirA] = 1 /\ written[DirB] = 1
    /\ pre_tree[DirA].manifest = ManFlat
    /\ Get(Accessor(tree[DirA].manifest), "version", None)
         = VStr(<<"1", ".", "0", ".", "1", "0">>)

\* C6: with a parent commit, a changed template whose manifest.yaml was
\* changed by the commit to carry an updated version is not written; a
\* changed template of which only other files changed is written exactly
\* once and its well-formed version has its patch increased by exactly 1.
C6_BumpDecisionGate ==
    (runs = 1 /\ exit = 0 /\ git.has_parent) =>
        \A d \in changed :
            /\ git.mdiff[d].version_changed =>
                  (written[d] = 0 /\ tree[d] = pre_tree[d])
            /\ ManifestPath(d) \notin Range(git.names) =>
                  LET old == Get(Accessor(pre_tree[d].manifest), "version",
                                 DefaultVersion)
                      new == Get(Accessor(tree[d].manifest), "version", None)
                  IN  /\ written[d] = 1
                      /\ WellFormed(old) =>
                            (WellFormed(new) /\ Patch(new) = Patch(old) + 1)

\* C9: a run that starts with a malformed manifest.yaml in some Template
\* Directory ends with a failure, and no failing run touches info.yaml.
C9_AllOrNothing ==
    Ran =>
        /\ (\E d \in TemplateDirSet(pre_tree) :
                pre_tree[d].manifest.status = "malformed")
              => exit # 0
        /\ exit # 0 => (info = pre_info /\ ~info_wrote)

\* template a was bumped, then the malformed manifest of b stopped the run
\* and the existing index was left alone
C9_Witness ==
    /\ Ran /\ exit = 1 /\ exc = "YAMLError"
    /\ pre_tree[DirB].manifest = Malformed
    /\ written[DirA] = 1
    /\ info.status = "yaml" /\ info = pre_info

\* C10 as stated: every manifest.yaml the run writes is in the flat form.
C10_OnlyFlatWritten ==
    \A d \in Entries :
        (Ran /\ written[d] > 0) => ~HasKey(safe_load(tree[d].manifest), "manifest")

\* C10: both shapes are read, and a manifest is written back in the shape
\* it was read in: nested under `manifest` stays nested, flat stays flat.
C10_ShapePreserved ==
    \A d \in Entries :
        (Ran /\ written[d] > 0) =>
            /\ HasKey(safe_load(tree[d].manifest), "manifest")
                  <=> HasKey(safe_load(pre_tree[d].manifest), "manifest")
            /\ HasKey(safe_load(tree[d].manifest), "manifest") =>
                  HasKey(Accessor(tree[d].manifest), "version")

\* a nested manifest and a flat one bumped by the same run
C10_Witness ==
    /\ Ran /\ exit = 0
    /\ written[DirA] = 1 /\ written[DirB] = 1
    /\ HasKey(safe_load(pre_tree[DirA].manifest), "manifest")
    /\ HasKey(safe_load(tree[DirA].manifest), "manifest")
    /\ ~HasKey(safe_load(pre_tree[DirB].manifest), "manifest")
    /\ ~HasKey(safe_load(tree[DirB].manifest), "manifest")

----------------------------------------------------------------------------
(* Properties of bump_patch_version *)

\* s without its leading and trailing whitespace
Stripped(s) ==
    LET solid == {i \in 1..Len(s) : ~IsSpace(s[i])}
    IN  IF solid = {} THEN <<>>
        ELSE SubSeq(s, CHOOSE i \in solid : \A j \in solid : i <= j,
                       CHOOSE i \in solid : \A j \in solid : j <= i)

\* exactly three dot-separated non-empty runs of digits
StrictForm(s) ==
    /\ Cardinality({i \in 1..Len(s) : s[i] = "."}) = 2
    /\ \A i \in 1..Len(s) : s[i] = "." \/ IsDigit(s[i])
    /\ s[1] # "." /\ s[Len(s)] # "."
    /\ \A i \in 1..(Len(s) - 1) : ~(s[i] = "." /\ s[i + 1] = ".")

\* a decimal numeral without superfluous leading zeros
Canonical(s) == AllDigits(s) /\ (Len(s) = 1 \/ Head(s) # "0")

\* C1 as stated: a strict M.N.P input yields the string M.N.(P+1), and
\* every other input string is returned unchanged.
C1_AsStated ==
    bp_done =>
        IF StrictForm(bp_in)
        THEN LET p == split(bp_in, ".")
             IN  bp_out = p[1] \o <<".">> \o p[2] \o <<".">> \o fmt_int(int(p[3]) + 1)
        ELSE bp_out = bp_in

\* C1: when the input with its surrounding whitespace removed is of the
\* strict form M.N.P, the result is the strict form whose three components
\* are the canonical decimal numerals of M, N and P+1 (no surrounding
\* whitespace, no leading zeros); every other input is returned unchanged.
C1_BumpStripped ==
    bp_done =>
        IF StrictForm(Stripped(bp_in))
        THEN LET p == split(Stripped(bp_in), ".")
                 o == split(bp_out, ".")
             IN  /\ StrictForm(bp_out)
                 /\ \A i \in 1..3 : Canonical(o[i])
                 /\ int(o[1]) = int(p[1])
                 /\ int(o[2]) = int(p[2])
                 /\ int(o[3]) = int(p[3]) + 1
        ELSE bp_out = bp_in

\* " 0.0.9" has been bumped to "0.0.10"
C1_Witness ==
    /\ bp_done
    /\ bp_in = <<" ", "0", ".", "0", ".", "9">>
    /\ bp_out = <<"0", ".", "0", ".", "1", "0">>

----------------------------------------------------------------------------
(* Properties of validate-catalog.py *)

ChangeSet == Range(get_changed_files(git))

\* d is a proper directory prefix of the path f
Owns(d, f) ==
    Len(f) > Len(d) + 1 /\ SubSeq(f, 1, Len(d)) = d /\ f[Len(d) + 1] = "/"

\* the Template Directories that own a changed file
OwningTemplates ==
    {d \in TemplateDirSet(tree) : \E f \in ChangeSet : Owns(d, f)}

PresentYaml ==
    {f \in ChangeSet :
        IsYamlFile(f) /\ FileStatus(tree, info, disk, f) # "absent"}

FailsToParse(f) == FileStatus(tree, info, disk, f) \in {"malformed", "undecodable"}

Validated == v_done /\ v_exit # -1

\* C7: every changed YAML file present on disk is parsed, one error is
\* reported per file that fails to parse, and the exit code is nonzero
\* exactly when some file failed to parse.
C7_CollectsAllFailures ==
    Validated =>
        /\ Range(v_parsed) = PresentYaml
        /\ Len(v_parsed) = Cardinality(PresentYaml)
        /\ Range(v_errors) = {f \in PresentYaml : FailsToParse(f)}
        /\ Len(v_errors) = Cardinality({f \in PresentYaml : FailsToParse(f)})
        /\ v_exit # 0 <=> (\E f \in PresentYaml : FailsToParse(f))

\* C8 as stated: in a run where a changed YAML file fails to parse, the
\* changed Template Directories are still reported.
C8_ReportedRegardless ==
    (Validated /\ \E f \in PresentYaml : FailsToParse(f)) =>
        (v_printed /\ Range(v_listed) = OwningTemplates)

\* C8: the changed Template Directories main computes are exactly those
\* owning a changed file, whether or not the files parse; the list is
\* printed exactly by the runs that return 0, and then it is that set.
C8_ChangedTemplates ==
    Validated =>
        /\ v_changed = OwningTemplates
        /\ v_printed <=> v_exit = 0
        /\ v_printed => Range(v_listed) = OwningTemplates
        /\ ~v_printed => v_listed = <<>>

\* a failing run: b owns the malformed b/sub/extra.yaml, nothing is listed
C8_Witness ==
    /\ Validated /\ v_exit = 1 /\ v_exc = ""
    /\ v_errors = <<ExtraPath>>
    /\ DirB \in v_changed
    /\ ~v_printed

====
